---- MODULE Spec2Model ----
(***************************************************************************)
(* Shared-memory OHLCV transport of data-source-nexus/native:              *)
(* SharedMemoryWriter (shm_writer.cpp, POSIX build) over the region layout *)
(* of shm_protocol.h, with a reader that follows the sequence retry        *)
(* protocol.  Byte offsets and sizes are those of the packed structs.      *)
(***************************************************************************)
EXTENDS Integers, Sequences, FiniteSets, TLC

\* ------------------------------------------------------------------------
\* Protocol constants (shm_protocol.h)
\* ------------------------------------------------------------------------
MAGIC == 1364088915
VERSION == 1
SYMBOL_NAME_SIZE == 16
INTERVAL_SIZE == 8
DATA_SECTIONS_OFFSET == 16640
CANDLE_SIZE == 48
BLOCK_HEADER_SIZE == 56
MIN_REGION_SIZE == 4352
MAX_REGION_SIZE == 1073741824
\* end of SymbolIndex::entries: 256 + 4 + 4 + 256 * 40
INDEX_ENTRIES_END == 10504
WRITER_PID == 7

\* ------------------------------------------------------------------------
\* Bounds of the model
\* ------------------------------------------------------------------------
\* MAX_SYMBOLS (256 in shm_protocol.h) and MAX_CANDLES_PER_SYMBOL (100000)
\* scaled down so that the capacity limits are reached.
MaxSymbols == 2
MaxCandles == 2
\* WriteCandles calls per behaviour
MaxCalls == 3
\* Create calls that pass validation, and WriteCandles calls, in SpecLife
MaxCreates == 2
LifeCalls == 1
\* WriteCandles calls beside a reader
RWCalls == 2
\* WriteCandles calls of a writer that may crash
CrashCalls == 1
\* WriteCandles calls beside a reader under fair scheduling of the writer
FairCalls == 1
\* WriteCandles calls of a writer that finds an object left in the namespace
ReuseCalls == 2
\* WriteCandles calls of a writer whose region may have room for every block
RoomCalls == 3

Min(a, b) == IF a < b THEN a ELSE b
MinOf(S) == CHOOSE x \in S : \A y \in S : x <= y
Range(f) == {f[x] : x \in DOMAIN f}

\* ------------------------------------------------------------------------
\* Inputs
\* ------------------------------------------------------------------------
\* Symbol names are byte strings (sequences of non-zero bytes).
ShortSymbols == {<<i>> : i \in 1..MaxSymbols}
LongSymbol == [i \in 1..SYMBOL_NAME_SIZE |-> 9]
Symbols == ShortSymbols \cup {LongSymbol}

ShortInterval == <<1, 8>>
LongInterval == [i \in 1..(INTERVAL_SIZE + 1) |-> 4]

\* CandleData number i (0-based) of the list of call number p: every call
\* brings values of its own, every field value is distinct, and the
\* timestamps of an even call descend (the lists are not sorted).
CandleData(p, i) ==
    [timestamp |-> IF p % 2 = 1 THEN 1000 * p + i ELSE 1000 * p - i,
     open   |-> 100 * p + 10 * i + 1,
     high   |-> 100 * p + 10 * i + 2,
     low    |-> 100 * p + 10 * i + 3,
     close  |-> 100 * p + 10 * i + 4,
     volume |-> 100 * p + 10 * i + 5]

CandleList(p, n) == [k \in 1..n |-> CandleData(p, k - 1)]

\* the arguments of WriteCandles call number p: any symbol, a list of any
\* length from empty to one beyond the limit
WriteInputs(p, symbols) ==
    {[symbol |-> s, interval |-> IF p % 2 = 1 THEN ShortInterval ELSE LongInterval,
      candles |-> CandleList(p, n)] :
        s \in symbols, n \in 0..(MaxCandles + 1)}

RequiredSize(n) == BLOCK_HEADER_SIZE + n * CANDLE_SIZE

\* a region that holds a one-candle block and a block of the largest list
ArenaSize == DATA_SECTIONS_OFFSET + RequiredSize(1) + RequiredSize(MaxCandles)

RegionNames == {"a", "b"}

\* the arguments of Create: no name, sizes around both limits, and regions
\* with a data section
InvalidCreateInputs ==
    {<<"", ArenaSize>>, <<"", 100>>, <<"a", 100>>, <<"a", MIN_REGION_SIZE - 1>>,
     <<"a", MAX_REGION_SIZE + 1>>}
OneRegionInputs == InvalidCreateInputs \cup {<<"a", MIN_REGION_SIZE>>, <<"a", ArenaSize>>}
AllCreateInputs == OneRegionInputs \cup {<<"b", ArenaSize>>, <<"a", MAX_REGION_SIZE>>}

\* ------------------------------------------------------------------------
\* Region content
\* ------------------------------------------------------------------------
\* strncpy(dst, s, n - 1); dst[n - 1] = 0, read back with strnlen
Truncate(s, n) == SubSeq(s, 1, Min(Len(s), n - 1))

ZeroEntry ==
    [symbol |-> <<>>, data_offset |-> 0, data_size |-> 0,
     candle_count |-> 0, last_update_us |-> 0]

ZeroHeader ==
    [magic |-> 0, version |-> 0, writer_pid |-> 0, reader_pid |-> 0,
     last_update_us |-> 0, sequence |-> 0, symbol_count |-> 0,
     flags |-> 0, crc32 |-> 0]

ZeroIndex == [count |-> 0, entries |-> [i \in 0..(MaxSymbols - 1) |-> ZeroEntry]]

\* The data section is kept as the function from the offsets of its non-zero
\* cells to their content; a cell is one stored field (4 or 8 bytes).
EmptyMem == [a \in {} |-> 0]

\* a shared object of the platform namespace; size 0 and exists FALSE: none
NoObject ==
    [exists |-> FALSE, size |-> 0, header |-> ZeroHeader, index |-> ZeroIndex,
     mem |-> EmptyMem]

Load(mem, a) == IF a \in DOMAIN mem THEN mem[a] ELSE 0

Store(mem, a, v) ==
    IF v = 0
    THEN [x \in (DOMAIN mem) \ {a} |-> mem[x]]
    ELSE [x \in (DOMAIN mem) \cup {a} |-> IF x = a THEN v ELSE mem[x]]

\* the bytes of a string of at most 8 bytes as the content of one 8-byte cell
\* (first byte least significant), and the string strnlen finds in a cell
RECURSIVE Pack(_)
Pack(s) == IF s = <<>> THEN 0 ELSE s[1] + 10 * Pack(Tail(s))

RECURSIVE Unpack(_)
Unpack(v) == IF v = 0 THEN <<>> ELSE <<v % 10>> \o Unpack(v \div 10)

\* std::memset(base + offset, 0, size)
ZeroFill(mem, offset, size) ==
    [x \in {a \in DOMAIN mem : a < offset \/ a >= offset + size} |-> mem[x]]

\* field offsets inside OHLCVDataBlock and Candle
OFF_SYMBOL == 0
OFF_SYMBOL_HI == 8
OFF_INTERVAL == 16
OFF_COUNT == 24
OFF_CAPACITY == 28
OFF_START == 32
OFF_END == 40
CandleFields == <<"timestamp", "open", "high", "low", "close", "volume">>
CandleFieldAddr(block, i, f) == block + BLOCK_HEADER_SIZE + i * CANDLE_SIZE + 8 * (f - 1)

\* OHLCVDataBlock::SetSymbol: the 16-byte field as two 8-byte cells
BlockSetSymbol(mem, block, sym) ==
    LET t == Truncate(sym, SYMBOL_NAME_SIZE)
        lo == SubSeq(t, 1, Min(Len(t), 8))
        hi == SubSeq(t, 9, Len(t))
    IN Store(Store(mem, block + OFF_SYMBOL, Pack(lo)), block + OFF_SYMBOL_HI, Pack(hi))

\* OHLCVDataBlock::GetSymbol
BlockGetSymbol(mem, block) ==
    LET lo == Unpack(Load(mem, block + OFF_SYMBOL))
    IN IF Len(lo) < 8 THEN lo ELSE lo \o Unpack(Load(mem, block + OFF_SYMBOL_HI))

\* OHLCVDataBlock::SetInterval
BlockSetInterval(mem, block, intvl) ==
    Store(mem, block + OFF_INTERVAL, Pack(Truncate(intvl, INTERVAL_SIZE)))

\* OHLCVDataBlock::GetInterval
BlockGetInterval(mem, block) == Unpack(Load(mem, block + OFF_INTERVAL))

\* the candle record i of the block at offset block
BlockCandle(mem, block, i) ==
    [f \in Range(CandleFields) |->
        Load(mem, CandleFieldAddr(block, i,
             CHOOSE k \in 1..Len(CandleFields) : CandleFields[k] = f))]

BlockCandles(mem, block, n) == [k \in 1..n |-> BlockCandle(mem, block, k - 1)]

\* SymbolIndex::Find: the first active entry whose stored name equals the
\* name as given, -1 for nullptr
NULL == -1
Find(index, symbol) ==
    LET hits == {i \in 0..(Min(index.count, MaxSymbols) - 1) :
                    index.entries[i].symbol = symbol}
    IN IF hits = {} THEN NULL ELSE MinOf(hits)

\* SharedMemoryRegion::GetDataBlock: offset of the block, 0 for nullptr
GetDataBlock(obj, symbol) ==
    LET e == Find(obj.index, symbol)
    IN IF e = NULL \/ obj.index.entries[e].data_offset = 0
       THEN 0
       ELSE obj.index.entries[e].data_offset

\* ------------------------------------------------------------------------
\* State
\* ------------------------------------------------------------------------
VARIABLES
    shm,                \* the shared objects of the namespace, by name
    name_, size_,       \* SharedMemoryWriter members
    region_,            \* region_ != nullptr (base_ptr_ and handle_ go with it)
    next_data_offset_,  \* the allocator cursor
    wpc,                \* the writer's position: "idle" between calls
    call,               \* arguments and locals of the WriteCandles call in progress
    ret,                \* the last call that returned, and what it returned
    clock,              \* what GetTimestampMicros returns next
    oob,                \* a store at or beyond the mapped size has happened
    pre,                \* the region and cursor as the last WriteCandles call found them
    lastWritten,        \* per symbol, the last list a WriteCandles wrote and returned OK for
    nCalls, nCreates,   \* calls made so far (bounded)
    nOk, nTx,           \* since the last successful Create: OK returns, transactions begun
    cfg,                \* the budget of the behaviour
    commits,            \* per even sequence value, the region when sequence took it
    rpc,                \* the reader's position
    r                   \* the reader's captures of the read in progress

wvars == <<shm, name_, size_, region_, next_data_offset_, wpc, call, ret, clock,
           oob, pre, lastWritten, nCalls, nCreates, nOk, nTx, cfg, commits>>
rvars == <<rpc, r>>
vars == <<wvars, rvars>>

ZeroStats ==
    [total_symbols |-> 0, total_candles |-> 0, memory_used |-> 0,
     last_write_us |-> 0, write_count |-> 0]

\* the arguments a returned call was made with
NoArgs == [name |-> "", size |-> 0, symbol |-> <<>>, n |-> 0]
CreateArgs(name, size) == [NoArgs EXCEPT !.name = name, !.size = size]
WriteArgs(symbol, candles) == [NoArgs EXCEPT !.symbol = symbol, !.n = Len(candles)]

Returned(op, args, err) == [op |-> op, args |-> args, err |-> err, stats |-> ZeroStats]
NoReturn == Returned("none", NoArgs, "none")

NoCall ==
    [symbol |-> <<>>, interval |-> <<>>, candles |-> <<>>, entry |-> NULL,
     data_offset |-> 0, required_size |-> 0, i |-> 0, f |-> 0, result |-> "none"]

NoPre == [obj |-> NoObject, cursor |-> 0]
NoneWritten == [s \in Symbols |-> <<>>]

\* what a read has captured so far: the symbol looked up, the sequence
\* before, the position of the Find loop, the entry, the block offset and
\* count, the number of candle cells read, and whether some value it read
\* differs from the value at that place when sequence took the value s1
NoRead ==
    [symbol |-> <<>>, s1 |-> 0, i |-> 0, entry |-> NULL, offset |-> 0, count |-> 0,
     k |-> 0, torn |-> FALSE]

\* the region the writer has mapped
Region == shm[name_]
Header == Region.header
Index == Region.index
Mem == Region.mem

\* SharedMemoryWriter::IsInitialized
IsInitialized == region_

\* a parity test that never reports a write in progress
IsWriting_never(header) == header.sequence < 0

\* Header::IsWriting
IsWriting(header) == header.sequence % 2 /= 0

SetHeader(obj, f, v) == [obj EXCEPT !.header[f] = v]
SetEntry(obj, i, f, v) == [obj EXCEPT !.index.entries[i][f] = v]
SetMem(obj, m) == [obj EXCEPT !.mem = m]

\* SharedMemoryWriter::SharedMemoryWriter
Construct(budget) ==
    /\ shm = [n \in RegionNames |-> NoObject]
    /\ name_ = ""
    /\ size_ = 0
    /\ region_ = FALSE
    /\ next_data_offset_ = DATA_SECTIONS_OFFSET
    /\ wpc = "idle"
    /\ call = NoCall
    /\ ret = NoReturn
    /\ clock = 1
    /\ oob = FALSE
    /\ pre = NoPre
    /\ lastWritten = NoneWritten
    /\ nCalls = 0
    /\ nCreates = 0
    /\ nOk = 0
    /\ nTx = 0
    /\ cfg = budget
    /\ commits = <<>>
    /\ rpc = "detached"
    /\ r = NoRead

\* ------------------------------------------------------------------------
\* Create, Close, GetStats
\* ------------------------------------------------------------------------
\* ftruncate on the object shm_open returned: a new object is all zero, an
\* existing one keeps its bytes below the new size
Truncated(obj, size) ==
    [exists |-> TRUE, size |-> size, header |-> obj.header, index |-> obj.index,
     mem |-> [a \in {x \in DOMAIN obj.mem : x < size} |-> obj.mem[a]]]

\* platform_create (POSIX): the step that fails, or none
PlatformOutcomes == {"ok", "shm_open", "ftruncate", "mmap"}

PlatformError(outcome) ==
    CASE outcome = "ok" -> "OK"
      [] outcome = "shm_open" -> "CREATE_FAILED"
      [] outcome = "ftruncate" -> "CREATE_FAILED"
      [] outcome = "mmap" -> "MAPPING_FAILED"

\* the namespace after platform_create: a failure after shm_open unlinks the name
PlatformCreate(objs, name, size, outcome) ==
    CASE outcome = "ok" -> [objs EXCEPT ![name] = Truncated(objs[name], size)]
      [] outcome = "shm_open" -> objs
      [] OTHER -> [objs EXCEPT ![name] = NoObject]

\* an initialization that leaves the sequence of an existing object in place
InitializedRegion_keeps_sequence(obj, now) ==
    [obj EXCEPT
        !.header = [magic |-> MAGIC, version |-> VERSION, writer_pid |-> WRITER_PID,
                    reader_pid |-> 0, last_update_us |-> now,
                    sequence |-> obj.header.sequence,
                    symbol_count |-> 0, flags |-> 0, crc32 |-> 0],
        !.index = ZeroIndex]

\* an initialization that writes the header and leaves the index in place
InitializedRegion_keeps_index(obj, now) ==
    [obj EXCEPT
        !.header = [magic |-> MAGIC, version |-> VERSION, writer_pid |-> WRITER_PID,
                    reader_pid |-> 0, last_update_us |-> now, sequence |-> 0,
                    symbol_count |-> 0, flags |-> 0, crc32 |-> 0]]

\* initialize_region: the header and the index; the data section is not touched
InitializedRegion(obj, now) ==
    [obj EXCEPT
        !.header = [magic |-> MAGIC, version |-> VERSION, writer_pid |-> WRITER_PID,
                    reader_pid |-> 0, last_update_us |-> now, sequence |-> 0,
                    symbol_count |-> 0, flags |-> 0, crc32 |-> 0],
        !.index = ZeroIndex]

\* the memset of the index entries of initialize_region ends beyond the mapping
InitOverruns(size) == size < INDEX_ENTRIES_END

\* the argument checks with the lower limit at 4 KiB
ValidateCreate_4KiB(name, size) ==
    IF name = "" THEN "INVALID_NAME"
    ELSE IF size < 4096 \/ size > MAX_REGION_SIZE THEN "INVALID_SIZE"
    ELSE "OK"

\* the argument checks of Create (shm_writer.cpp:34-39)
ValidateCreate(name, size) ==
    IF name = "" THEN "INVALID_NAME"
    ELSE IF size < MIN_REGION_SIZE \/ size > MAX_REGION_SIZE THEN "INVALID_SIZE"
    ELSE "OK"

\* a Create that closes the region it has only once the new one is mapped
Create_keeps_region(name, size) ==
    /\ wpc = "idle"
    /\ IF ValidateCreate(name, size) /= "OK"
       THEN /\ ret' = Returned("Create", CreateArgs(name, size), ValidateCreate(name, size))
            /\ UNCHANGED <<shm, name_, size_, region_, next_data_offset_, wpc, clock,
                           oob, pre, lastWritten, nCreates, nOk, nTx, commits>>
       ELSE /\ nCreates < cfg.creates
            /\ nCreates' = nCreates + 1
            /\ name_' = name
            /\ size_' = size
            /\ pre' = NoPre
            /\ \E outcome \in PlatformOutcomes :
                 IF outcome /= "ok"
                 THEN \* the region the writer had stays mapped
                      /\ shm' = PlatformCreate(shm, name, size, outcome)
                      /\ region_' = region_
                      /\ next_data_offset_' = next_data_offset_
                      /\ ret' = Returned("Create", CreateArgs(name, size), PlatformError(outcome))
                      /\ UNCHANGED <<wpc, clock, oob, lastWritten, nOk, nTx, commits>>
                 ELSE /\ shm' = [PlatformCreate(shm, name, size, outcome) EXCEPT
                                    ![name] = InitializedRegion(@, clock)]
                      /\ region_' = TRUE
                      /\ next_data_offset_' = DATA_SECTIONS_OFFSET
                      /\ clock' = clock + 1
                      /\ lastWritten' = NoneWritten
                      /\ commits' = (0 :> shm'[name])
                      /\ nOk' = 0
                      /\ nTx' = 0
                      /\ IF InitOverruns(size)
                         THEN \* out of bounds: the process faults, or goes on
                              /\ oob' = TRUE
                              /\ \E faults \in BOOLEAN :
                                   IF faults
                                   THEN /\ wpc' = "crashed"
                                        /\ ret' = Returned("crashed", NoArgs, "Create")
                                   ELSE /\ wpc' = wpc
                                        /\ ret' = Returned("Create", CreateArgs(name, size), "OK")
                         ELSE /\ ret' = Returned("Create", CreateArgs(name, size), "OK")
                              /\ UNCHANGED <<wpc, oob>>
    /\ UNCHANGED <<call, nCalls, cfg>>

\* a Create that does its implicit Close before it checks its arguments
Create_closes_first(name, size) ==
    /\ wpc = "idle"
    /\ IF ValidateCreate(name, size) /= "OK"
       THEN \* the region the writer had is closed before the arguments are checked
            /\ ret' = Returned("Create", CreateArgs(name, size), ValidateCreate(name, size))
            /\ region_' = FALSE
            /\ name_' = IF IsInitialized THEN "" ELSE name_
            /\ size_' = IF IsInitialized THEN 0 ELSE size_
            /\ next_data_offset_' =
                  IF IsInitialized THEN DATA_SECTIONS_OFFSET ELSE next_data_offset_
            /\ UNCHANGED <<shm, wpc, clock,
                           oob, pre, lastWritten, nCreates, nOk, nTx, commits>>
       ELSE /\ nCreates < cfg.creates
            /\ nCreates' = nCreates + 1
            /\ name_' = name
            /\ size_' = size
            /\ pre' = NoPre
            /\ \E outcome \in PlatformOutcomes :
                 IF outcome /= "ok"
                 THEN \* the implicit Close has happened, nothing is mapped
                      /\ shm' = PlatformCreate(shm, name, size, outcome)
                      /\ region_' = FALSE
                      /\ next_data_offset_' =
                            IF IsInitialized THEN DATA_SECTIONS_OFFSET ELSE next_data_offset_
                      /\ ret' = Returned("Create", CreateArgs(name, size), PlatformError(outcome))
                      /\ UNCHANGED <<wpc, clock, oob, lastWritten, nOk, nTx, commits>>
                 ELSE /\ shm' = [PlatformCreate(shm, name, size, outcome) EXCEPT
                                    ![name] = InitializedRegion(@, clock)]
                      /\ region_' = TRUE
                      /\ next_data_offset_' = DATA_SECTIONS_OFFSET
                      /\ clock' = clock + 1
                      /\ lastWritten' = NoneWritten
                      /\ commits' = (0 :> shm'[name])
                      /\ nOk' = 0
                      /\ nTx' = 0
                      /\ IF InitOverruns(size)
                         THEN \* out of bounds: the process faults, or goes on
                              /\ oob' = TRUE
                              /\ \E faults \in BOOLEAN :
                                   IF faults
                                   THEN /\ wpc' = "crashed"
                                        /\ ret' = Returned("crashed", NoArgs, "Create")
                                   ELSE /\ wpc' = wpc
                                        /\ ret' = Returned("Create", CreateArgs(name, size), "OK")
                         ELSE /\ ret' = Returned("Create", CreateArgs(name, size), "OK")
                              /\ UNCHANGED <<wpc, oob>>
    /\ UNCHANGED <<call, nCalls, cfg>>


\* SharedMemoryWriter::Create
Create(name, size) ==
    /\ wpc = "idle"
    /\ IF ValidateCreate(name, size) /= "OK"
       THEN /\ ret' = Returned("Create", CreateArgs(name, size), ValidateCreate(name, size))
            /\ UNCHANGED <<shm, name_, size_, region_, next_data_offset_, wpc, clock,
                           oob, pre, lastWritten, nCreates, nOk, nTx, commits>>
       ELSE /\ nCreates < cfg.creates
            /\ nCreates' = nCreates + 1
            /\ name_' = name
            /\ size_' = size
            /\ pre' = NoPre
            /\ \E outcome \in PlatformOutcomes :
                 IF outcome /= "ok"
                 THEN \* the implicit Close has happened, nothing is mapped
                      /\ shm' = PlatformCreate(shm, name, size, outcome)
                      /\ region_' = FALSE
                      /\ next_data_offset_' =
                            IF IsInitialized THEN DATA_SECTIONS_OFFSET ELSE next_data_offset_
                      /\ ret' = Returned("Create", CreateArgs(name, size), PlatformError(outcome))
                      /\ UNCHANGED <<wpc, clock, oob, lastWritten, nOk, nTx, commits>>
                 ELSE /\ shm' = [PlatformCreate(shm, name, size, outcome) EXCEPT
                                    ![name] = InitializedRegion(@, clock)]
                      /\ region_' = TRUE
                      /\ next_data_offset_' = DATA_SECTIONS_OFFSET
                      /\ clock' = clock + 1
                      /\ lastWritten' = NoneWritten
                      /\ commits' = (0 :> shm'[name])
                      /\ nOk' = 0
                      /\ nTx' = 0
                      /\ IF InitOverruns(size)
                         THEN \* out of bounds: the process faults, or goes on
                              /\ oob' = TRUE
                              /\ \E faults \in BOOLEAN :
                                   IF faults
                                   THEN /\ wpc' = "crashed"
                                        /\ ret' = Returned("crashed", NoArgs, "Create")
                                   ELSE /\ wpc' = wpc
                                        /\ ret' = Returned("Create", CreateArgs(name, size), "OK")
                         ELSE /\ ret' = Returned("Create", CreateArgs(name, size), "OK")
                              /\ UNCHANGED <<wpc, oob>>
    /\ UNCHANGED <<call, nCalls, cfg>>

\* a Close that removes the backing object of the region it unmaps
Close_unlinks ==
    /\ wpc = "idle"
    /\ shm' = IF IsInitialized THEN [shm EXCEPT ![name_] = NoObject] ELSE shm
    /\ name_' = ""
    /\ size_' = 0
    /\ region_' = FALSE
    /\ next_data_offset_' = DATA_SECTIONS_OFFSET
    /\ pre' = NoPre
    /\ ret' = Returned("Close", NoArgs, "OK")
    /\ UNCHANGED <<wpc, call, clock, oob, lastWritten, nCalls, nCreates, nOk, nTx, cfg, commits>>

Close ==
    /\ wpc = "idle"
    /\ name_' = ""
    /\ size_' = 0
    /\ region_' = FALSE
    /\ next_data_offset_' = DATA_SECTIONS_OFFSET
    /\ pre' = NoPre
    /\ ret' = Returned("Close", NoArgs, "OK")
    /\ UNCHANGED <<shm, wpc, call, clock, oob, lastWritten, nCalls, nCreates, nOk, nTx, cfg, commits>>

RECURSIVE SumCandleCounts(_, _)
SumCandleCounts(index, n) ==
    IF n = 0 THEN 0
    ELSE SumCandleCounts(index, n - 1) + index.entries[n - 1].candle_count

\* statistics that report the sequence itself as the number of writes
Stats_sequence ==
    IF ~IsInitialized THEN ZeroStats
    ELSE [total_symbols |-> Index.count,
          total_candles |-> SumCandleCounts(Index, Index.count),
          memory_used |-> next_data_offset_,
          last_write_us |-> Header.last_update_us,
          write_count |-> Header.sequence]

\* statistics that report the cursor of a writer that is not initialized
Stats_cursor_when_closed ==
    IF ~IsInitialized THEN [ZeroStats EXCEPT !.memory_used = next_data_offset_]
    ELSE [total_symbols |-> Index.count,
          total_candles |-> SumCandleCounts(Index, Index.count),
          memory_used |-> next_data_offset_,
          last_write_us |-> Header.last_update_us,
          write_count |-> Header.sequence \div 2]

\* SharedMemoryWriter::GetStats
Stats ==
    IF ~IsInitialized THEN ZeroStats
    ELSE [total_symbols |-> Index.count,
          total_candles |-> SumCandleCounts(Index, Index.count),
          memory_used |-> next_data_offset_,
          last_write_us |-> Header.last_update_us,
          write_count |-> Header.sequence \div 2]

GetStats ==
    /\ wpc = "idle"
    /\ ret' = [Returned("GetStats", NoArgs, "OK") EXCEPT !.stats = Stats]
    /\ UNCHANGED <<shm, name_, size_, region_, next_data_offset_, wpc, call, clock,
                   oob, pre, lastWritten, nCalls, nCreates, nOk, nTx, cfg, commits>>

\* ------------------------------------------------------------------------
\* WriteCandles, store by store
\* ------------------------------------------------------------------------
\* the writer's stores go to the region it has mapped
Write(obj) == shm' = [shm EXCEPT ![name_] = obj]

\* everything a step of a transaction leaves alone besides shm, wpc and call
TxFrame ==
    UNCHANGED <<name_, size_, region_, ret, oob, pre, lastWritten, nCalls, nCreates,
                nOk, nTx, cfg, commits>>

\* a begin_write that leaves sequence as it is
begin_write_missing(obj) == obj

\* an end_write that leaves sequence as begin_write set it
end_write_sequence_skipped(obj) == obj

\* an end_write that adds two
end_write_sequence_twice(obj) == [obj EXCEPT !.header.sequence = @ + 2]

\* begin_write and the increment of end_write
begin_write(obj) == [obj EXCEPT !.header.sequence = @ + 1]
end_write_sequence(obj) == [obj EXCEPT !.header.sequence = @ + 1]

\* argument checks that refuse a list of exactly the largest length
CheckWrite_refuses_limit(initialized, n) ==
    IF ~initialized THEN "NOT_INITIALIZED"
    ELSE IF n = 0 THEN "OK"
    ELSE IF n >= MaxCandles THEN "CANDLE_LIMIT_EXCEEDED"
    ELSE "begin_write"

\* argument checks that refuse an empty list
CheckWrite_refuses_empty(initialized, n) ==
    IF ~initialized THEN "NOT_INITIALIZED"
    ELSE IF n = 0 \/ n > MaxCandles THEN "CANDLE_LIMIT_EXCEEDED"
    ELSE "begin_write"

\* argument checks that look at the list first
CheckWrite_list_first(initialized, n) ==
    IF n = 0 THEN "OK"
    ELSE IF n > MaxCandles THEN "CANDLE_LIMIT_EXCEEDED"
    ELSE IF ~initialized THEN "NOT_INITIALIZED"
    ELSE "begin_write"

\* the argument checks of WriteCandles (shm_writer.cpp:74-82), in order: what
\* the call returns at once, or that it goes on to begin_write
CheckWrite(initialized, n) ==
    IF ~initialized THEN "NOT_INITIALIZED"
    ELSE IF n = 0 THEN "OK"
    ELSE IF n > MaxCandles THEN "CANDLE_LIMIT_EXCEEDED"
    ELSE "begin_write"

\* the argument checks (shm_writer.cpp:74-82); a call that passes them begins
\* the transaction
WriteCandles(args) ==
    /\ wpc = "idle"
    /\ nCalls < cfg.calls
    /\ nCalls' = nCalls + 1
    /\ IF CheckWrite(IsInitialized, Len(args.candles)) = "NOT_INITIALIZED"
       THEN /\ ret' = Returned("WriteCandles", WriteArgs(args.symbol, args.candles),
                            "NOT_INITIALIZED")
            /\ UNCHANGED <<shm, wpc, call, pre, nOk, nTx>>
       ELSE IF CheckWrite(IsInitialized, Len(args.candles)) = "OK"
       THEN /\ ret' = Returned("WriteCandles", WriteArgs(args.symbol, args.candles), "OK")
            /\ nOk' = nOk + 1
            /\ UNCHANGED <<shm, wpc, call, pre, nTx>>
       ELSE IF CheckWrite(IsInitialized, Len(args.candles)) = "CANDLE_LIMIT_EXCEEDED"
       THEN /\ ret' = Returned("WriteCandles", WriteArgs(args.symbol, args.candles),
                            "CANDLE_LIMIT_EXCEEDED")
            /\ UNCHANGED <<shm, wpc, call, pre, nOk, nTx>>
       ELSE /\ Write(begin_write(Region))
            /\ wpc' = "find"
            /\ call' = [NoCall EXCEPT !.symbol = args.symbol,
                                      !.interval = args.interval,
                                      !.candles = args.candles]
            /\ pre' = [obj |-> Region, cursor |-> next_data_offset_]
            /\ ret' = NoReturn
            /\ nTx' = nTx + 1
            /\ UNCHANGED nOk
    /\ UNCHANGED <<name_, size_, region_, next_data_offset_, clock, oob,
                   lastWritten, nCreates, cfg, commits>>

\* a full index returns from WriteCandles at once, without end_write
find_or_add_symbol_returns ==
    /\ wpc = "find"
    /\ LET e == Find(Index, call.symbol)
       IN IF e /= NULL
          THEN call' = [call EXCEPT !.entry = e] /\ wpc' = "required_size" /\ UNCHANGED ret
          ELSE IF Index.count >= MaxSymbols
          THEN /\ call' = NoCall
               /\ wpc' = "idle"
               /\ ret' = Returned("WriteCandles", WriteArgs(call.symbol, call.candles),
                                  "SYMBOL_LIMIT_EXCEEDED")
          ELSE call' = [call EXCEPT !.entry = Index.count] /\ wpc' = "add_count"
                 /\ UNCHANGED ret
    /\ UNCHANGED <<shm, name_, size_, region_, oob, pre, lastWritten, nCalls, nCreates,
                   nOk, nTx, cfg, commits, next_data_offset_, clock>>

\* a full index hands out its last entry
find_or_add_symbol_evicts ==
    /\ wpc = "find"
    /\ LET e == Find(Index, call.symbol)
       IN IF e /= NULL
          THEN call' = [call EXCEPT !.entry = e] /\ wpc' = "required_size"
          ELSE IF Index.count >= MaxSymbols
          THEN call' = [call EXCEPT !.entry = MaxSymbols - 1] /\ wpc' = "required_size"
          ELSE call' = [call EXCEPT !.entry = Index.count] /\ wpc' = "add_count"
    /\ TxFrame
    /\ UNCHANGED <<shm, next_data_offset_, clock>>

\* a full index refuses every call, before the lookup
find_or_add_symbol_limit_first ==
    /\ wpc = "find"
    /\ LET e == Find(Index, call.symbol)
       IN IF Index.count >= MaxSymbols
          THEN /\ call' = [call EXCEPT !.result = "SYMBOL_LIMIT_EXCEEDED"]
               /\ wpc' = "end_write"
          ELSE IF e /= NULL
          THEN call' = [call EXCEPT !.entry = e] /\ wpc' = "required_size"
          ELSE call' = [call EXCEPT !.entry = Index.count] /\ wpc' = "add_count"
    /\ TxFrame
    /\ UNCHANGED <<shm, next_data_offset_, clock>>

\* find_or_add_symbol: the lookup and the capacity check
find_or_add_symbol ==
    /\ wpc = "find"
    /\ LET e == Find(Index, call.symbol)
       IN IF e /= NULL
          THEN call' = [call EXCEPT !.entry = e] /\ wpc' = "required_size"
          ELSE IF Index.count >= MaxSymbols
          THEN /\ call' = [call EXCEPT !.result = "SYMBOL_LIMIT_EXCEEDED"]
               /\ wpc' = "end_write"
          ELSE call' = [call EXCEPT !.entry = Index.count] /\ wpc' = "add_count"
    /\ TxFrame
    /\ UNCHANGED <<shm, next_data_offset_, clock>>

\* SymbolIndex::Add: entries[count++]
add_count ==
    /\ wpc = "add_count"
    /\ IF Index.count >= MaxSymbols
       THEN /\ call' = [call EXCEPT !.entry = NULL, !.result = "SYMBOL_LIMIT_EXCEEDED"]
            /\ wpc' = "end_write"
            /\ UNCHANGED shm
       ELSE /\ Write([Region EXCEPT !.index.count = @ + 1])
            /\ wpc' = "add_symbol"
            /\ UNCHANGED call
    /\ TxFrame
    /\ UNCHANGED <<next_data_offset_, clock>>

\* an Add that stores the name in the first entry
add_symbol_first_entry ==
    /\ wpc = "add_symbol"
    /\ Write(SetEntry(Region, 0, "symbol", Truncate(call.symbol, SYMBOL_NAME_SIZE)))
    /\ wpc' = "add_header_count"
    /\ TxFrame
    /\ UNCHANGED <<call, next_data_offset_, clock>>

\* SymbolIndex::Add: entry->SetSymbol(symbol)
add_symbol ==
    /\ wpc = "add_symbol"
    /\ Write(SetEntry(Region, call.entry, "symbol", Truncate(call.symbol, SYMBOL_NAME_SIZE)))
    /\ wpc' = "add_header_count"
    /\ TxFrame
    /\ UNCHANGED <<call, next_data_offset_, clock>>

\* find_or_add_symbol: header.symbol_count = symbol_index.count
add_header_count ==
    /\ wpc = "add_header_count"
    /\ Write(SetHeader(Region, "symbol_count", Index.count))
    /\ wpc' = "required_size"
    /\ TxFrame
    /\ UNCHANGED <<call, next_data_offset_, clock>>

\* an allocation that needs a byte more than the block
CanAllocate_needs_room(cursor, size, total) == cursor + size < total

\* an allocation that never fails
CanAllocate_grows(cursor, size, total) == TRUE

\* allocate_data_block succeeds
CanAllocate(cursor, size, total) == ~(cursor + size > total)

\* a block decision that starts again at the data-section start when the
\* arena is used up
allocate_or_reuse_wraps ==
    /\ wpc = "required_size"
    /\ LET required == RequiredSize(Len(call.candles))
           entry == Index.entries[call.entry]
           at == IF CanAllocate(next_data_offset_, required, size_)
                 THEN next_data_offset_ ELSE DATA_SECTIONS_OFFSET
       IN IF entry.data_offset = 0 \/ required > entry.data_size
          THEN IF CanAllocate(at, required, size_)
               THEN /\ next_data_offset_' = at + required
                    /\ Write(SetMem(Region, ZeroFill(Mem, at, required)))
                    /\ call' = [call EXCEPT !.data_offset = at,
                                            !.required_size = required]
                    /\ wpc' = "entry_offset"
               ELSE /\ call' = [call EXCEPT !.result = "WRITE_FAILED"]
                    /\ wpc' = "end_write"
                    /\ UNCHANGED <<shm, next_data_offset_>>
          ELSE /\ call' = [call EXCEPT !.data_offset = entry.data_offset,
                                       !.required_size = required]
               /\ wpc' = "block_symbol"
               /\ UNCHANGED <<shm, next_data_offset_>>
    /\ TxFrame
    /\ UNCHANGED clock

\* a block decision that clears the block it uses again
allocate_or_reuse_clears ==
    /\ wpc = "required_size"
    /\ LET required == RequiredSize(Len(call.candles))
           entry == Index.entries[call.entry]
       IN IF entry.data_offset = 0 \/ required > entry.data_size
          THEN IF CanAllocate(next_data_offset_, required, size_)
               THEN /\ next_data_offset_' = next_data_offset_ + required
                    /\ Write(SetMem(Region, ZeroFill(Mem, next_data_offset_, required)))
                    /\ call' = [call EXCEPT !.data_offset = next_data_offset_,
                                            !.required_size = required]
                    /\ wpc' = "entry_offset"
               ELSE /\ call' = [call EXCEPT !.result = "WRITE_FAILED"]
                    /\ wpc' = "end_write"
                    /\ UNCHANGED <<shm, next_data_offset_>>
          ELSE /\ Write(SetMem(Region, ZeroFill(Mem, entry.data_offset, entry.data_size)))
               /\ call' = [call EXCEPT !.data_offset = entry.data_offset,
                                       !.required_size = required]
               /\ wpc' = "block_symbol"
               /\ UNCHANGED next_data_offset_
    /\ TxFrame
    /\ UNCHANGED clock

\* a block decision that takes a new block for every write
allocate_or_reuse_always_new ==
    /\ wpc = "required_size"
    /\ LET required == RequiredSize(Len(call.candles))
       IN IF CanAllocate(next_data_offset_, required, size_)
          THEN /\ next_data_offset_' = next_data_offset_ + required
               /\ Write(SetMem(Region, ZeroFill(Mem, next_data_offset_, required)))
               /\ call' = [call EXCEPT !.data_offset = next_data_offset_,
                                       !.required_size = required]
               /\ wpc' = "entry_offset"
          ELSE /\ call' = [call EXCEPT !.result = "WRITE_FAILED"]
               /\ wpc' = "end_write"
               /\ UNCHANGED <<shm, next_data_offset_>>
    /\ TxFrame
    /\ UNCHANGED clock

\* a block decision that keeps the block an entry has, whatever its size
allocate_or_reuse_in_place ==
    /\ wpc = "required_size"
    /\ LET required == RequiredSize(Len(call.candles))
           entry == Index.entries[call.entry]
       IN IF entry.data_offset = 0
          THEN IF CanAllocate(next_data_offset_, required, size_)
               THEN /\ next_data_offset_' = next_data_offset_ + required
                    /\ Write(SetMem(Region, ZeroFill(Mem, next_data_offset_, required)))
                    /\ call' = [call EXCEPT !.data_offset = next_data_offset_,
                                            !.required_size = required]
                    /\ wpc' = "entry_offset"
               ELSE /\ call' = [call EXCEPT !.result = "WRITE_FAILED"]
                    /\ wpc' = "end_write"
                    /\ UNCHANGED <<shm, next_data_offset_>>
          ELSE /\ call' = [call EXCEPT !.data_offset = entry.data_offset,
                                       !.required_size = required]
               /\ wpc' = "block_symbol"
               /\ UNCHANGED <<shm, next_data_offset_>>
    /\ TxFrame
    /\ UNCHANGED clock

\* the block decision (shm_writer.cpp:94-121) up to the allocation: a new block
\* at the cursor, zero-filled, or the block the entry has
allocate_or_reuse ==
    /\ wpc = "required_size"
    /\ LET required == RequiredSize(Len(call.candles))
           entry == Index.entries[call.entry]
       IN IF entry.data_offset = 0 \/ required > entry.data_size
          THEN IF CanAllocate(next_data_offset_, required, size_)
               THEN /\ next_data_offset_' = next_data_offset_ + required
                    /\ Write(SetMem(Region, ZeroFill(Mem, next_data_offset_, required)))
                    /\ call' = [call EXCEPT !.data_offset = next_data_offset_,
                                            !.required_size = required]
                    /\ wpc' = "entry_offset"
               ELSE /\ call' = [call EXCEPT !.result = "WRITE_FAILED"]
                    /\ wpc' = "end_write"
                    /\ UNCHANGED <<shm, next_data_offset_>>
          ELSE /\ call' = [call EXCEPT !.data_offset = entry.data_offset,
                                       !.required_size = required]
               /\ wpc' = "block_symbol"
               /\ UNCHANGED <<shm, next_data_offset_>>
    /\ TxFrame
    /\ UNCHANGED clock

\* entry->data_offset = data_offset
entry_offset ==
    /\ wpc = "entry_offset"
    /\ Write(SetEntry(Region, call.entry, "data_offset", call.data_offset))
    /\ wpc' = "entry_size"
    /\ TxFrame
    /\ UNCHANGED <<call, next_data_offset_, clock>>

\* a data_size rounded up to the next multiple of the candle size
entry_size_rounded ==
    /\ wpc = "entry_size"
    /\ Write(SetEntry(Region, call.entry, "data_size",
                      ((call.required_size \div CANDLE_SIZE) + 1) * CANDLE_SIZE))
    /\ wpc' = "block_symbol"
    /\ TxFrame
    /\ UNCHANGED <<call, next_data_offset_, clock>>

\* entry->data_size = required_size
entry_size ==
    /\ wpc = "entry_size"
    /\ Write(SetEntry(Region, call.entry, "data_size", call.required_size))
    /\ wpc' = "block_symbol"
    /\ TxFrame
    /\ UNCHANGED <<call, next_data_offset_, clock>>

\* one store of the block header (shm_writer.cpp:129-134)
BlockStore(at, mem, next) ==
    /\ wpc = at
    /\ Write(SetMem(Region, mem))
    /\ wpc' = next
    /\ TxFrame
    /\ UNCHANGED <<call, next_data_offset_, clock>>

block_symbol ==
    BlockStore("block_symbol", BlockSetSymbol(Mem, call.data_offset, call.symbol),
               "block_interval")

block_interval ==
    BlockStore("block_interval", BlockSetInterval(Mem, call.data_offset, call.interval),
               "block_count")

block_count ==
    BlockStore("block_count", Store(Mem, call.data_offset + OFF_COUNT, Len(call.candles)),
               "block_capacity")

\* a block header whose capacity field is left at zero
block_capacity_zero ==
    BlockStore("block_capacity", Store(Mem, call.data_offset + OFF_CAPACITY, 0),
               "block_start")

block_capacity ==
    BlockStore("block_capacity",
               Store(Mem, call.data_offset + OFF_CAPACITY, Len(call.candles)),
               "block_start")

\* a block header that takes the smallest timestamp of the list as the start
block_start_smallest ==
    BlockStore("block_start",
               Store(Mem, call.data_offset + OFF_START,
                     MinOf({call.candles[k].timestamp : k \in 1..Len(call.candles)})),
               "block_end")

block_start ==
    BlockStore("block_start",
               Store(Mem, call.data_offset + OFF_START, call.candles[1].timestamp),
               "block_end")

block_end ==
    BlockStore("block_end",
               Store(Mem, call.data_offset + OFF_END,
                     call.candles[Len(call.candles)].timestamp),
               "candle")

\* the copy loop: one field of candles[i] per step
copy_candle ==
    /\ wpc = "candle"
    /\ IF call.i < Len(call.candles)
       THEN /\ Write(SetMem(Region,
                 Store(Mem, CandleFieldAddr(call.data_offset, call.i, call.f + 1),
                       call.candles[call.i + 1][CandleFields[call.f + 1]])))
            /\ call' = IF call.f + 1 < Len(CandleFields)
                       THEN [call EXCEPT !.f = @ + 1]
                       ELSE [call EXCEPT !.f = 0, !.i = @ + 1]
            /\ wpc' = wpc
       ELSE /\ wpc' = "entry_count"
            /\ UNCHANGED <<shm, call>>
    /\ TxFrame
    /\ UNCHANGED <<next_data_offset_, clock>>

\* a candle_count stored after the increment that closes the transaction
entry_count_after_end_write ==
    /\ wpc = "entry_count"
    /\ Write(SetEntry(end_write_sequence(Region), call.entry, "candle_count",
                      Len(call.candles)))
    /\ wpc' = "entry_update"
    /\ TxFrame
    /\ UNCHANGED <<call, next_data_offset_, clock>>

\* entry->candle_count = candles.size()
entry_count ==
    /\ wpc = "entry_count"
    /\ Write(SetEntry(Region, call.entry, "candle_count", Len(call.candles)))
    /\ wpc' = "entry_update"
    /\ TxFrame
    /\ UNCHANGED <<call, next_data_offset_, clock>>

\* a timestamp stored to every active entry of the index
entry_update_every_entry ==
    /\ wpc = "entry_update"
    /\ Write([Region EXCEPT !.index.entries =
                 [i \in DOMAIN @ |->
                     IF i < Region.index.count
                     THEN [@[i] EXCEPT !.last_update_us = clock]
                     ELSE @[i]]])
    /\ clock' = clock + 1
    /\ call' = [call EXCEPT !.result = "OK"]
    /\ wpc' = "end_write"
    /\ TxFrame
    /\ UNCHANGED next_data_offset_

\* entry->last_update_us = GetTimestampMicros()
entry_update ==
    /\ wpc = "entry_update"
    /\ Write(SetEntry(Region, call.entry, "last_update_us", clock))
    /\ clock' = clock + 1
    /\ call' = [call EXCEPT !.result = "OK"]
    /\ wpc' = "end_write"
    /\ TxFrame
    /\ UNCHANGED next_data_offset_

\* an end_write that waits until no reader is in the middle of a read
end_write_waits ==
    /\ wpc = "end_write"
    /\ rpc \in {"detached", "s1", "accepted"}
    /\ Write(end_write_sequence(Region))
    /\ commits' = commits @@ (shm'[name_].header.sequence :> shm'[name_])
    /\ wpc' = "end_timestamp"
    /\ UNCHANGED <<name_, size_, region_, ret, oob, pre, lastWritten, nCalls, nCreates,
                   nOk, nTx, cfg, call, next_data_offset_, clock>>

\* end_write: the increment
end_write ==
    /\ wpc = "end_write"
    /\ Write(end_write_sequence(Region))
    /\ commits' = commits @@ (shm'[name_].header.sequence :> shm'[name_])
    /\ wpc' = "end_timestamp"
    /\ UNCHANGED <<name_, size_, region_, ret, oob, pre, lastWritten, nCalls, nCreates,
                   nOk, nTx, cfg, call, next_data_offset_, clock>>

\* end_write: the timestamp, and the return of WriteCandles
end_timestamp ==
    /\ wpc = "end_timestamp"
    /\ Write(SetHeader(Region, "last_update_us", clock))
    /\ clock' = clock + 1
    /\ ret' = Returned("WriteCandles", WriteArgs(call.symbol, call.candles), call.result)
    /\ nOk' = IF call.result = "OK" THEN nOk + 1 ELSE nOk
    /\ lastWritten' = IF call.result = "OK"
                      THEN [lastWritten EXCEPT ![call.symbol] = call.candles]
                      ELSE lastWritten
    /\ wpc' = "idle"
    /\ call' = NoCall
    /\ UNCHANGED <<name_, size_, region_, next_data_offset_, oob, pre, nCalls, nCreates,
                   nTx, cfg, commits>>

\* ------------------------------------------------------------------------
\* The writer alone
\* ------------------------------------------------------------------------
TxStep ==
    \/ find_or_add_symbol
    \/ add_count
    \/ add_symbol
    \/ add_header_count
    \/ allocate_or_reuse
    \/ entry_offset
    \/ entry_size
    \/ block_symbol
    \/ block_interval
    \/ block_count
    \/ block_capacity
    \/ block_start
    \/ block_end
    \/ copy_candle
    \/ entry_count
    \/ entry_update
    \/ end_write
    \/ end_timestamp

WriterNext ==
    \/ \E in \in cfg.inputs : Create(in[1], in[2])
    \/ Close
    \/ GetStats
    \/ \E args \in WriteInputs(nCalls + 1, cfg.symbols) : WriteCandles(args)
    \/ TxStep

\* the writer process stops in the middle of WriteCandles
Crash ==
    /\ wpc \notin {"idle", "crashed"}
    /\ ret' = Returned("crashed", NoArgs, wpc)
    /\ wpc' = "crashed"
    /\ UNCHANGED <<shm, name_, size_, region_, next_data_offset_, call, clock, oob, pre,
                   lastWritten, nCalls, nCreates, nOk, nTx, cfg, commits>>

\* ------------------------------------------------------------------------
\* A reader of the region named "a", following the retry protocol
\* ------------------------------------------------------------------------
ReaderRegion == shm["a"]

\* the region as it was when sequence took the value the reader captured
AsCaptured == IF r.s1 \in DOMAIN commits THEN commits[r.s1] ELSE NoObject

\* one read of the reader: the value v, and the value w the place held then
Capture(v, w) == r.torn \/ r.s1 \notin DOMAIN commits \/ v /= w

\* Header::IsValid, checked once when the reader maps the region
r_attach ==
    /\ rpc = "detached"
    /\ ReaderRegion.exists
    /\ ReaderRegion.header.magic = MAGIC /\ ReaderRegion.header.version = VERSION
    /\ rpc' = "s1"
    /\ UNCHANGED r

\* capture s1; an odd value sends the reader back to capture again
r_s1 ==
    /\ rpc = "s1"
    /\ \E sym \in cfg.reads :
         r' = [NoRead EXCEPT !.symbol = sym, !.s1 = ReaderRegion.header.sequence]
    /\ rpc' = IF IsWriting(ReaderRegion.header) THEN "s1" ELSE "find"

\* SymbolIndex::Find, the loop condition: i < count && i < MAX_SYMBOLS
r_find ==
    /\ rpc = "find"
    /\ r' = [r EXCEPT !.torn = Capture(ReaderRegion.index.count, AsCaptured.index.count)]
    /\ rpc' = IF r.i < ReaderRegion.index.count /\ r.i < MaxSymbols
              THEN "find_symbol" ELSE "s2"

\* SymbolIndex::Find, the comparison of entries[i].GetSymbol()
r_find_symbol ==
    /\ rpc = "find_symbol"
    /\ LET sym == ReaderRegion.index.entries[r.i].symbol
           torn == Capture(sym, AsCaptured.index.entries[r.i].symbol)
       IN IF sym = r.symbol
          THEN rpc' = "offset" /\ r' = [r EXCEPT !.entry = r.i, !.torn = torn]
          ELSE rpc' = "find" /\ r' = [r EXCEPT !.i = @ + 1, !.torn = torn]

\* GetDataBlock: entry->data_offset, 0 for no block
r_offset ==
    /\ rpc = "offset"
    /\ LET offset == ReaderRegion.index.entries[r.entry].data_offset
       IN /\ r' = [r EXCEPT !.offset = offset,
                            !.torn = Capture(offset,
                                             AsCaptured.index.entries[r.entry].data_offset)]
          /\ rpc' = IF offset = 0 THEN "s2" ELSE "block_count"

\* one field of the block header
ReadBlock(at, field, next) ==
    /\ rpc = at
    /\ LET v == Load(ReaderRegion.mem, r.offset + field)
       IN r' = [r EXCEPT !.count = IF field = OFF_COUNT THEN v ELSE @,
                         !.torn = Capture(v, Load(AsCaptured.mem, r.offset + field))]
    /\ rpc' = next

r_block_count == ReadBlock("block_count", OFF_COUNT, "block_start")
r_block_start == ReadBlock("block_start", OFF_START, "block_end")
r_block_end == ReadBlock("block_end", OFF_END, "candle")

\* the candle records, one field per read, in order
r_candle ==
    /\ rpc = "candle"
    /\ LET n == Len(CandleFields)
           a == CandleFieldAddr(r.offset, r.k \div n, (r.k % n) + 1)
       IN IF r.k < r.count * n
          THEN /\ r' = [r EXCEPT !.k = @ + 1,
                                 !.torn = Capture(Load(ReaderRegion.mem, a),
                                                  Load(AsCaptured.mem, a))]
               /\ rpc' = rpc
          ELSE rpc' = "s2" /\ UNCHANGED r

\* capture s2: the read is accepted when s2 = s1, discarded otherwise
r_s2 ==
    /\ rpc = "s2"
    /\ rpc' = IF ReaderRegion.header.sequence = r.s1 THEN "accepted" ELSE "s1"
    /\ UNCHANGED r

\* the next read
r_again ==
    /\ rpc = "accepted"
    /\ rpc' = "s1"
    /\ r' = NoRead

ReaderNext ==
    \/ r_attach
    \/ r_s1
    \/ r_find
    \/ r_find_symbol
    \/ r_offset
    \/ r_block_count
    \/ r_block_start
    \/ r_block_end
    \/ r_candle
    \/ r_s2
    \/ r_again

\* ------------------------------------------------------------------------
\* Specifications
\* ------------------------------------------------------------------------
\* one region lifetime of the writer alone: at most one Create passes validation
Init ==
    Construct([calls |-> MaxCalls, creates |-> 1, inputs |-> OneRegionInputs,
               symbols |-> Symbols, reads |-> {}])

Next == WriterNext /\ UNCHANGED rvars

Spec == Init /\ [][Next]_vars

\* several lifetimes and regions, few writes
InitLife ==
    Construct([calls |-> LifeCalls, creates |-> MaxCreates, inputs |-> AllCreateInputs,
               symbols |-> Symbols, reads |-> {}])

SpecLife == InitLife /\ [][Next]_vars

\* a writer process that starts while the namespace holds the object "a" an
\* earlier writer process wrote and closed (Close does not unlink): its data
\* section holds a block of MaxCandles candles at the data-section start
RECURSIVE StoreCandles(_, _, _, _)
StoreCandles(mem, block, candles, k) ==
    IF k = 0 THEN mem
    ELSE LET below == StoreCandles(mem, block, candles, k - 1)
             i == (k - 1) \div Len(CandleFields)
             f == ((k - 1) % Len(CandleFields)) + 1
         IN Store(below, CandleFieldAddr(block, i, f), candles[i + 1][CandleFields[f]])

LeftoverCandles == CandleList(7, MaxCandles)

LeftoverMem ==
    LET block == DATA_SECTIONS_OFFSET
        n == Len(LeftoverCandles)
        m1 == BlockSetInterval(BlockSetSymbol(EmptyMem, block, <<1>>), block, ShortInterval)
        m2 == Store(Store(m1, block + OFF_COUNT, n), block + OFF_CAPACITY, n)
        m3 == Store(Store(m2, block + OFF_START, LeftoverCandles[1].timestamp),
                    block + OFF_END, LeftoverCandles[n].timestamp)
    IN StoreCandles(m3, block, LeftoverCandles, n * Len(CandleFields))

Leftover ==
    [exists |-> TRUE,
     size |-> ArenaSize,
     header |-> [ZeroHeader EXCEPT !.magic = MAGIC, !.version = VERSION,
                                   !.writer_pid = WRITER_PID, !.sequence = 2,
                                   !.symbol_count = 1],
     index |-> [ZeroIndex EXCEPT
                   !.count = 1,
                   !.entries[0] = [symbol |-> <<1>>,
                                   data_offset |-> DATA_SECTIONS_OFFSET,
                                   data_size |-> RequiredSize(MaxCandles),
                                   candle_count |-> MaxCandles,
                                   last_update_us |-> 0]],
     mem |-> LeftoverMem]

\* the sizes of one region, and the smallest size that holds the whole index
ReuseInputs == OneRegionInputs \cup {<<"a", INDEX_ENTRIES_END>>}

InitReuse ==
    /\ shm = [n \in RegionNames |-> IF n = "a" THEN Leftover ELSE NoObject]
    /\ name_ = ""
    /\ size_ = 0
    /\ region_ = FALSE
    /\ next_data_offset_ = DATA_SECTIONS_OFFSET
    /\ wpc = "idle"
    /\ call = NoCall
    /\ ret = NoReturn
    /\ clock = 1
    /\ oob = FALSE
    /\ pre = NoPre
    /\ lastWritten = NoneWritten
    /\ nCalls = 0
    /\ nCreates = 0
    /\ nOk = 0
    /\ nTx = 0
    /\ cfg = [calls |-> ReuseCalls, creates |-> 1, inputs |-> ReuseInputs,
              symbols |-> Symbols, reads |-> {}]
    /\ commits = <<>>
    /\ rpc = "detached"
    /\ r = NoRead

SpecReuse == InitReuse /\ [][Next]_vars

\* one region lifetime in a region of the arena size or of the largest size,
\* which has room for every block the calls can ask for; the names are short
RoomInputs == {<<"a", ArenaSize>>, <<"a", MAX_REGION_SIZE>>}

InitRoom ==
    Construct([calls |-> RoomCalls, creates |-> 1, inputs |-> RoomInputs,
               symbols |-> ShortSymbols, reads |-> {}])

SpecRoom == InitRoom /\ [][Next]_vars

\* one region with a concurrent reader: two symbols are written, both are read
ReaderSymbols == {<<1>>, <<2>>}

InitRW ==
    Construct([calls |-> RWCalls, creates |-> 1, inputs |-> {<<"a", ArenaSize>>},
               symbols |-> ReaderSymbols, reads |-> ReaderSymbols])

NextRW ==
    \/ WriterNext /\ UNCHANGED rvars
    \/ ReaderNext /\ UNCHANGED wvars

SpecRW == InitRW /\ [][NextRW]_vars

\* the writer's steps are its own: it is scheduled whatever the reader does
InitFair ==
    Construct([calls |-> FairCalls, creates |-> 1, inputs |-> {<<"a", ArenaSize>>},
               symbols |-> ReaderSymbols, reads |-> ReaderSymbols])

SpecFair == InitFair /\ [][NextRW]_vars /\ WF_vars(TxStep /\ UNCHANGED rvars)

\* the same, and the reader is scheduled too: a writer of finitely many
\* transactions, each of which runs to its end, and a reader that keeps going
SpecLive ==
    /\ InitFair
    /\ [][NextRW]_vars
    /\ WF_vars(TxStep /\ UNCHANGED rvars)
    /\ WF_vars(ReaderNext /\ UNCHANGED wvars)

\* the same, and the writer process may stop in the middle of a call
InitCrash ==
    Construct([calls |-> CrashCalls, creates |-> 1, inputs |-> {<<"a", ArenaSize>>},
               symbols |-> ReaderSymbols, reads |-> ReaderSymbols])

NextCrash ==
    \/ NextRW
    \/ Crash /\ UNCHANGED rvars

SpecCrash == InitCrash /\ [][NextCrash]_vars

\* ------------------------------------------------------------------------
\* Properties
\* ------------------------------------------------------------------------
\* a WriteCandles call that began a transaction has returned, and nothing has
\* been called since: pre holds the region and cursor as the call found them
TxReturned ==
    /\ wpc = "idle"
    /\ region_
    /\ ret.op = "WriteCandles"
    /\ ret.args.n > 0
    /\ ret.err \in {"OK", "SYMBOL_LIMIT_EXCEEDED", "WRITE_FAILED"}

\* the writer is between the increment of begin_write and that of end_write
InTransaction == wpc \notin {"idle", "end_timestamp", "crashed"}

\* C1: a read the reader accepts (s1 even, s2 = s1) holds no value that
\* differs from the region as it stood when the transaction that brought
\* sequence to s1 completed: count, names, offset, block header and candle
\* records all belong to that one transaction.
C1_AcceptedReadIsOneTransaction ==
    rpc = "accepted" =>
        /\ r.s1 % 2 = 0
        /\ r.s1 \in DOMAIN commits
        /\ ~r.torn

\* an accepted read of a whole block, taken after two transactions
C1_Witness ==
    /\ rpc = "accepted"
    /\ r.s1 = 4
    /\ r.offset /= 0
    /\ r.count >= 1
    /\ r.k = r.count * Len(CandleFields)

\* C2 (as stated): after WriteCandles(X, interval, L) returned OK for a
\* non-empty L and with no write in progress, looking X up in the index and
\* following data_offset gives a block with count = Len(L) and the candle
\* records of L in order.
C2_ReaderReadsBackLastWrite ==
    (region_ /\ wpc = "idle") =>
        \A X \in Symbols :
            lastWritten[X] /= <<>> =>
                LET block == GetDataBlock(Region, X)
                    L == lastWritten[X]
                IN /\ block /= 0
                   /\ Load(Mem, block + OFF_COUNT) = Len(L)
                   /\ BlockCandles(Mem, block, Len(L)) = L

C4_SequenceIsTwiceOkReturns ==
    (region_ /\ wpc = "idle") =>
        /\ Header.sequence = 2 * nOk
        /\ Stats.write_count = nOk

\* C4 (amended): between calls, after a successful Create and WriteCandles
\* calls of which N passed the argument checks and began a transaction
\* (whether they returned OK, SymbolLimitExceeded or WriteFailed), sequence
\* = 2N, it is even, and writeCount = N; an OK return for an empty list
\* counts for nothing.
C4_SequenceIsTwiceTransactions ==
    (region_ /\ wpc = "idle") =>
        /\ Header.sequence = 2 * nTx
        /\ Header.sequence % 2 = 0
        /\ Stats.write_count = nTx

\* three transactions done, fewer OK returns than transactions or more
C4_Witness ==
    /\ region_
    /\ wpc = "idle"
    /\ nTx = 3
    /\ nOk /= nTx
    /\ Header.sequence = 6

\* C5: a WriteCandles call that began a transaction has incremented sequence
\* twice when it returns, on every exit path: at a return of
\* SymbolLimitExceeded or WriteFailed sequence is even, two more than the
\* call found it.
C5_FailedWriteClosesTransaction ==
    (/\ wpc = "idle"
     /\ ret.op = "WriteCandles"
     /\ ret.args.n > 0
     /\ ret.err \in {"OK", "SYMBOL_LIMIT_EXCEEDED", "WRITE_FAILED"}) =>
        /\ region_
        /\ Header.sequence % 2 = 0
        /\ Header.sequence = pre.obj.header.sequence + 2

\* a return of SymbolLimitExceeded
C5_Witness ==
    /\ TxReturned
    /\ ret.err = "SYMBOL_LIMIT_EXCEEDED"
    /\ Header.sequence = 6

\* what is left of a transaction: the steps to come, counted from the position
PcRank ==
    [find |-> 18, add_count |-> 17, add_symbol |-> 16, add_header_count |-> 15,
     required_size |-> 14, entry_offset |-> 13, entry_size |-> 12, block_symbol |-> 11,
     block_interval |-> 10, block_count |-> 9, block_capacity |-> 8, block_start |-> 7,
     block_end |-> 6, candle |-> 5, entry_count |-> 4, entry_update |-> 3,
     end_write |-> 2, end_timestamp |-> 1, idle |-> 0, crashed |-> 0]

StepsLeft ==
    PcRank[wpc] * (Len(CandleFields) * (MaxCandles + 1))
        + IF wpc = "candle"
          THEN (Len(call.candles) - call.i) * Len(CandleFields) - call.f
          ELSE 0

\* C6: inside a transaction the writer always has a step it can take,
\* whatever the reader's position; no step of the reader changes what the
\* writer can do; every step of the writer brings the return nearer; and the
\* call returns.
C6_WriterNeverWaits ==
    /\ [](wpc \notin {"idle", "crashed"} => ENABLED (TxStep /\ UNCHANGED rvars))
    /\ [][(wpc' /= wpc \/ call' /= call) => StepsLeft' < StepsLeft \/ wpc = "idle"]_vars
    /\ [][(rpc' /= rpc \/ r' /= r) => UNCHANGED wvars]_vars
    /\ (wpc /= "idle") ~> (wpc = "idle")

\* the writer at its closing increment while the reader is reading candles
C6_Witness ==
    /\ wpc = "end_write"
    /\ rpc = "candle"
    /\ r.k >= 1

\* the writer stopped between the two increments
CrashedInTransaction ==
    /\ wpc = "crashed"
    /\ ret.op = "crashed"
    /\ ret.err \notin {"end_timestamp", "Create"}

\* C7: once the writer has stopped between begin_write and end_write,
\* sequence is odd and keeps its value in every later state, and the reader
\* never comes to accept a read.
C7_CrashLeavesSequenceOdd ==
    [][CrashedInTransaction =>
          /\ ReaderRegion.header.sequence % 2 = 1
          /\ CrashedInTransaction'
          /\ ReaderRegion'.header.sequence = ReaderRegion.header.sequence
          /\ rpc' = "accepted" => rpc = "accepted"]_vars

\* the writer stopped in the copy loop, the reader has captured the odd
\* sequence and is capturing again
C7_Witness ==
    /\ CrashedInTransaction
    /\ ret.err = "candle"
    /\ rpc = "s1"
    /\ r.s1 % 2 = 1

\* C8: a Create with an empty name returns InvalidName, a Create with a name
\* and a size below 4352 or above 1 GiB returns InvalidSize, and no other
\* Create returns either; such a Create changes nothing: a writer that was
\* not initialized stays so and no shared object comes to exist; and a
\* WriteCandles on a writer that is not initialized returns NotInitialized.
C8_CreateRejectsBadArguments ==
    [][/\ (ret'.op = "Create" /\ ret' /= ret) =>
            LET name == ret'.args.name
                size == ret'.args.size
                badSize == size < 4352 \/ size > 1073741824
                rejected == ret'.err \in {"INVALID_NAME", "INVALID_SIZE"}
            IN /\ name = "" => ret'.err = "INVALID_NAME"
               /\ (name /= "" /\ badSize) => ret'.err = "INVALID_SIZE"
               /\ (name /= "" /\ ~badSize) => ~rejected
               /\ rejected =>
                    /\ UNCHANGED <<shm, region_, name_, size_, next_data_offset_>>
                    /\ ~region_ => ~IsInitialized'
       /\ (nCalls' /= nCalls /\ ~IsInitialized) =>
            /\ ret'.op = "WriteCandles"
            /\ ret'.err = "NOT_INITIALIZED"
            /\ UNCHANGED shm]_vars

\* Create("a", 100) has returned InvalidSize on a writer never initialized,
\* and no object exists
C8_Witness ==
    /\ ret.op = "Create"
    /\ ret.args.name = "a"
    /\ ret.args.size = 100
    /\ ret.err = "INVALID_SIZE"
    /\ ~IsInitialized
    /\ nCreates = 0
    /\ \A n \in RegionNames : ~shm[n].exists

\* C9: the index never holds more than MaxSymbols entries; a WriteCandles
\* that finds MaxSymbols entries and none for its symbol returns
\* SymbolLimitExceeded and leaves both counts at MaxSymbols, every index
\* entry, the data section and the allocator cursor as they were; and
\* SymbolLimitExceeded is returned in no other case.
C9_SymbolLimit ==
    /\ region_ => (Index.count <= MaxSymbols /\ Header.symbol_count <= MaxSymbols)
    /\ TxReturned =>
         LET full == /\ pre.obj.index.count = MaxSymbols
                     /\ Find(pre.obj.index, ret.args.symbol) = NULL
         IN /\ full <=> ret.err = "SYMBOL_LIMIT_EXCEEDED"
            /\ full =>
                 /\ Index = pre.obj.index
                 /\ Index.count = MaxSymbols
                 /\ Header.symbol_count = MaxSymbols
                 /\ Mem = pre.obj.mem
                 /\ next_data_offset_ = pre.cursor

\* a third, new symbol was refused by an index of two distinct names
C9_Witness ==
    /\ TxReturned
    /\ ret.err = "SYMBOL_LIMIT_EXCEEDED"
    /\ Index.count = MaxSymbols
    /\ Index.entries[0].symbol /= Index.entries[1].symbol
    /\ ret.args.symbol \notin {Index.entries[0].symbol, Index.entries[1].symbol}

\* the write of n candles for symbol finds a block that is too small
Relocates(obj, symbol, n) ==
    LET e == Find(obj.index, symbol)
    IN /\ e /= NULL
       /\ obj.index.entries[e].data_offset /= 0
       /\ RequiredSize(n) > obj.index.entries[e].data_size

\* the non-zero cells of size bytes at offset
BlockBytes(mem, offset, size) ==
    [a \in {x \in DOMAIN mem : x >= offset /\ x < offset + size} |-> mem[a]]

\* a byte of the data section below the cursor that no index entry's block holds
Abandoned(obj, cursor, a) ==
    /\ a >= DATA_SECTIONS_OFFSET
    /\ a < cursor
    /\ \A i \in 0..(obj.index.count - 1) :
         LET e == obj.index.entries[i]
         IN e.data_offset = 0 \/ a < e.data_offset \/ a >= e.data_offset + e.data_size

\* a relocating call at its return
RelocatedAtReturn ==
    (TxReturned /\ Relocates(pre.obj, ret.args.symbol, ret.args.n)) =>
        LET e == Find(pre.obj.index, ret.args.symbol)
            old == pre.obj.index.entries[e]
            new == Index.entries[e]
            required == RequiredSize(ret.args.n)
        IN /\ ret.err \in {"OK", "WRITE_FAILED"}
           /\ ret.err = "OK" <=> CanAllocate(pre.cursor, required, size_)
           /\ ret.err = "OK" =>
                /\ new.data_offset = pre.cursor
                /\ new.data_offset > old.data_offset
                /\ new.data_size = required
                /\ next_data_offset_ = pre.cursor + required
                /\ GetDataBlock(Region, ret.args.symbol) = pre.cursor
                /\ BlockBytes(Mem, old.data_offset, old.data_size)
                     = BlockBytes(pre.obj.mem, old.data_offset, old.data_size)
                /\ \A a \in old.data_offset..(old.data_offset + old.data_size - 1) :
                     Abandoned(Region, next_data_offset_, a)

FitsInPlace(obj, symbol, n) ==
    LET e == Find(obj.index, symbol)
    IN /\ e /= NULL
       /\ obj.index.entries[e].data_offset /= 0
       /\ RequiredSize(n) <= obj.index.entries[e].data_size

\* an in-place write at its return, the capacity field apart
InPlaceAtReturn ==
    LET e == Find(pre.obj.index, ret.args.symbol)
        old == pre.obj.index.entries[e]
        new == Index.entries[e]
    IN /\ ret.err = "OK"
       /\ new.data_offset = old.data_offset
       /\ new.data_size = old.data_size
       /\ next_data_offset_ = pre.cursor
       /\ Index.count = pre.obj.index.count
       /\ new.candle_count = ret.args.n
       /\ Load(Mem, new.data_offset + OFF_COUNT) = ret.args.n

LastLength(entry) ==
    LET S == {s \in Symbols : Truncate(s, SYMBOL_NAME_SIZE) = entry.symbol}
    IN IF S = {} THEN 0 ELSE Len(lastWritten[CHOOSE s \in S : TRUE])

RECURSIVE SumLastLengths(_, _)
SumLastLengths(index, n) ==
    IF n = 0 THEN 0
    ELSE SumLastLengths(index, n - 1) + LastLength(index.entries[n - 1])

\* C12 (as stated): between calls GetStats of an initialized writer gives
\* totalSymbols = the active entries, totalCandles = the sum over the active
\* entries of the length of the last list written with OK for the entry's
\* symbol, memoryUsed = the cursor and writeCount = sequence / 2.
C12_StatsReportLastLists ==
    (region_ /\ wpc = "idle") =>
        /\ Stats.total_symbols = Index.count
        /\ Stats.total_candles = SumLastLengths(Index, Index.count)
        /\ Stats.memory_used = next_data_offset_
        /\ Stats.write_count = Header.sequence \div 2

\* the length of the list of the WriteCandles call a step makes
WriteCallLength == IF wpc' = "find" THEN Len(call'.candles) ELSE ret'.args.n

\* C13: on an initialized writer a WriteCandles call returns
\* CandleLimitExceeded exactly when its list is longer than MaxCandles; the
\* call then changes nothing in the region or the writer; a list of exactly
\* MaxCandles goes on to begin_write.
C13_CandleLimitChangesNothing ==
    [][(nCalls' /= nCalls /\ IsInitialized) =>
          /\ (WriteCallLength > MaxCandles) <=>
                (wpc' = "idle" /\ ret'.op = "WriteCandles"
                    /\ ret'.err = "CANDLE_LIMIT_EXCEEDED")
          /\ WriteCallLength > MaxCandles =>
                UNCHANGED <<shm, next_data_offset_, region_, name_, size_, wpc>>
          /\ WriteCallLength = MaxCandles =>
                /\ wpc' = "find"
                /\ Header'.sequence = Header.sequence + 1]_vars

\* a list one longer than the limit was refused by a writer that holds data
C13_Witness ==
    /\ region_
    /\ wpc = "idle"
    /\ ret.op = "WriteCandles"
    /\ ret.err = "CANDLE_LIMIT_EXCEEDED"
    /\ ret.args.n = MaxCandles + 1
    /\ Index.count >= 1
    /\ Header.sequence >= 2

\* C14: on an initialized writer a WriteCandles call with an empty list
\* returns OK at once and changes nothing: sequence, index (no entry for a
\* new symbol), data section and cursor are as before.
C14_EmptyListChangesNothing ==
    [][(nCalls' /= nCalls /\ IsInitialized /\ WriteCallLength = 0) =>
          /\ wpc' = "idle"
          /\ ret'.op = "WriteCandles"
          /\ ret'.err = "OK"
          /\ UNCHANGED <<shm, next_data_offset_, region_, name_, size_>>]_vars

\* an empty list for a symbol the index does not hold has returned OK
C14_Witness ==
    /\ region_
    /\ wpc = "idle"
    /\ ret.op = "WriteCandles"
    /\ ret.err = "OK"
    /\ ret.args.n = 0
    /\ Index.count = 1
    /\ Find(Index, ret.args.symbol) = NULL
    /\ Truncate(ret.args.symbol, SYMBOL_NAME_SIZE) = ret.args.symbol

\* a step that is a Close call on a writer whose last call was not Close
CloseStep == ret'.op = "Close" /\ ret.op /= "Close"

\* a step that is a Create call whose arguments pass the checks
CreateStep == nCreates' /= nCreates /\ wpc' /= "crashed"

\* a WriteCandles call on a writer that is not initialized returns
\* NotInitialized, whatever its list, and stores nothing
RefusedWhenNotInitialized ==
    (nCalls' /= nCalls /\ ~IsInitialized) =>
        /\ wpc' = "idle"
        /\ ret'.op = "WriteCandles"
        /\ ret'.err = "NOT_INITIALIZED"
        /\ UNCHANGED <<shm, region_, next_data_offset_>>

\* C15 (as stated): WriteCandles returns NotInitialized, whatever its
\* arguments, on a writer that is not initialized, and IsInitialized is true
\* exactly between a successful Create and the next Close: a Create that
\* returns OK makes it true, a Close makes it false, and no other step
\* changes it.
C15_InitializedBetweenCreateAndClose ==
    [][/\ RefusedWhenNotInitialized
       /\ wpc' /= "crashed" =>
            IsInitialized' =
                IF CreateStep /\ ret'.err = "OK" THEN TRUE
                ELSE IF CloseStep THEN FALSE
                ELSE IsInitialized]_vars

\* C15 (amended): as above, with the Create that passes the argument checks
\* and then fails on the platform as a closing step: it has closed the
\* region the writer had, and leaves the writer not initialized.
C15_InitializedUntilCloseOrFailedCreate ==
    [][/\ RefusedWhenNotInitialized
       /\ wpc' /= "crashed" =>
            IsInitialized' =
                IF CreateStep THEN ret'.err = "OK"
                ELSE IF CloseStep THEN FALSE
                ELSE IsInitialized]_vars

\* an empty list was refused by a writer that was created before
C15_Witness ==
    /\ ~IsInitialized
    /\ nCreates >= 1
    /\ \E n \in RegionNames : shm[n].exists
    /\ ret.op = "WriteCandles"
    /\ ret.err = "NOT_INITIALIZED"
    /\ ret.args.n = 0

\* C16: right after a Create that returned OK the writer is initialized,
\* the header holds the protocol's magic and version, reader pid 0,
\* sequence 0 and symbol_count 0, the index has count 0 and every entry
\* zeroed, and the cursor is at DATA_SECTIONS_OFFSET.
C16_CreateInitializesRegion ==
    (ret.op = "Create" /\ ret.err = "OK") =>
        /\ IsInitialized
        /\ name_ = ret.args.name
        /\ size_ = ret.args.size
        /\ Header.magic = MAGIC
        /\ Header.version = VERSION
        /\ Header.writer_pid = WRITER_PID
        /\ Header.reader_pid = 0
        /\ Header.sequence = 0
        /\ Header.symbol_count = 0
        /\ Index = ZeroIndex
        /\ next_data_offset_ = DATA_SECTIONS_OFFSET

\* some cell of the data section is not zero
DataSectionHoldsBytes(obj) ==
    \E a \in DOMAIN obj.mem : a >= DATA_SECTIONS_OFFSET /\ obj.mem[a] /= 0

\* a Create has returned OK over an object that was written before
C16_Witness ==
    /\ ret.op = "Create"
    /\ ret.err = "OK"
    /\ nCreates = 2
    /\ DataSectionHoldsBytes(Region)

\* C17 (as stated): right after a Create that returned OK every byte of
\* the data section of the region is zero, whatever happened before.
C17_CreateZeroesDataSection ==
    (ret.op = "Create" /\ ret.err = "OK") => ~DataSectionHoldsBytes(Region)

\* C18: a Create with valid arguments on an initialized writer closes the
\* region the writer has and creates the new one: when it returns OK the
\* writer is attached to the region named in the call only, with sequence 0,
\* symbol count 0 and the cursor at DATA_SECTIONS_OFFSET, GetStats reports
\* nothing written, and an object of another name is as Close leaves it;
\* when it fails the writer is not initialized and the cursor is reset.
C18_CreateClosesFirst ==
    [][(CreateStep /\ IsInitialized) =>
          IF ret'.err = "OK"
          THEN /\ IsInitialized'
               /\ name_' = ret'.args.name
               /\ size_' = ret'.args.size
               /\ Header'.sequence = 0
               /\ Header'.symbol_count = 0
               /\ Index'.count = 0
               /\ next_data_offset_' = DATA_SECTIONS_OFFSET
               /\ Stats'.total_symbols = 0
               /\ Stats'.total_candles = 0
               /\ Stats'.write_count = 0
               /\ Stats'.memory_used = DATA_SECTIONS_OFFSET
               /\ \A n \in RegionNames \ {name_'} : shm'[n] = shm[n]
          ELSE /\ ~IsInitialized'
               /\ next_data_offset_' = DATA_SECTIONS_OFFSET
               /\ Stats' = ZeroStats
               /\ \A n \in RegionNames \ {name_'} : shm'[n] = shm[n]]_vars

\* a second Create has returned OK while an object written before exists
C18_Witness ==
    /\ ret.op = "Create"
    /\ ret.err = "OK"
    /\ nCreates = 2
    /\ IsInitialized
    /\ \E n \in RegionNames :
          /\ shm[n].exists
          /\ DataSectionHoldsBytes(shm[n])

\* C19: Close leaves every backing object as it is and makes the writer not
\* initialized with the cursor at DATA_SECTIONS_OFFSET; the writer after
\* construction and the writer after Close already hold every value Close
\* assigns, so a Close on them changes nothing.
C19_CloseKeepsObject ==
    /\ []((nCreates = 0 \/ ret.op = "Close") =>
            /\ ~IsInitialized
            /\ name_ = ""
            /\ size_ = 0
            /\ next_data_offset_ = DATA_SECTIONS_OFFSET)
    /\ [][CloseStep =>
            /\ shm' = shm
            /\ ~IsInitialized'
            /\ name_' = ""
            /\ size_' = 0
            /\ next_data_offset_' = DATA_SECTIONS_OFFSET]_vars

\* a writer that wrote a list is closed, and the object holds the list
C19_Witness ==
    /\ ret.op = "Close"
    /\ ~IsInitialized
    /\ \E n \in RegionNames :
          /\ shm[n].exists
          /\ shm[n].header.sequence = 2
          /\ shm[n].index.count = 1
          /\ DataSectionHoldsBytes(shm[n])

\* the active entries of an index that store the truncated form of a name
EntriesOf(index, symbol) ==
    {i \in 0..(MaxSymbols - 1) :
        /\ i < index.count
        /\ index.entries[i].symbol = Truncate(symbol, SYMBOL_NAME_SIZE)}

\* C20 (as stated): a WriteCandles call whose name agrees in its first 15
\* bytes with the name of an active entry resolves to that entry: the call
\* is not refused for a full index, the number of active entries does not
\* grow, and one entry stores the name.
C20_SameNameSameEntry ==
    (TxReturned /\ EntriesOf(pre.obj.index, ret.args.symbol) /= {}) =>
        /\ ret.err /= "SYMBOL_LIMIT_EXCEEDED"
        /\ Index.count = pre.obj.index.count
        /\ Cardinality(EntriesOf(Index, ret.args.symbol)) = 1

\* C21: every store of WriteCandles to the index (count, entries) and to
\* the data section lies between the two increments of sequence: whenever
\* sequence is even, index and data section are exactly what they were when
\* sequence took that value, so none of them is modified while it is even.
C21_StoresWhileSequenceOdd ==
    (IsInitialized /\ ~IsWriting(Header)) =>
        /\ Header.sequence \in DOMAIN commits
        /\ Index = commits[Header.sequence].index
        /\ Mem = commits[Header.sequence].mem

\* a second transaction has ended after a relocation and an added entry
C21_Witness ==
    /\ IsInitialized
    /\ wpc = "end_timestamp"
    /\ Header.sequence = 4
    /\ Index.count = 2
    /\ Index /= commits[2].index
    /\ Mem /= commits[2].mem

\* the cells of a memory inside [offset, offset + size)
CellsIn(mem, offset, size) == {a \in DOMAIN mem : a >= offset /\ a < offset + size}

\* C22: allocate_data_block(size) succeeds exactly when cursor + size is at
\* most the region size; on success it returns the old cursor, the cursor
\* has advanced by size, and every byte of the block is zero before a
\* payload store while the bytes outside are as they were; on failure it
\* returns 0 and leaves the cursor and the data section as they were.
C22_AllocateDataBlock ==
    /\ wpc = "entry_offset" =>
          /\ call.required_size = RequiredSize(Len(call.candles))
          /\ pre.cursor + call.required_size <= size_
          /\ call.data_offset = pre.cursor
          /\ next_data_offset_ = pre.cursor + call.required_size
          /\ CellsIn(Mem, call.data_offset, call.required_size) = {}
          /\ \A a \in (DOMAIN pre.obj.mem) \ CellsIn(pre.obj.mem, call.data_offset,
                                                     call.required_size) :
                Load(Mem, a) = pre.obj.mem[a]
    /\ (wpc = "end_write" /\ call.result = "WRITE_FAILED") =>
          /\ pre.cursor + RequiredSize(Len(call.candles)) > size_
          /\ call.data_offset = 0
          /\ next_data_offset_ = pre.cursor
          /\ Mem = pre.obj.mem

\* a block that fits exactly was allocated over bytes an earlier writer left
C22_Witness ==
    /\ wpc = "entry_offset"
    /\ next_data_offset_ = size_
    /\ CellsIn(pre.obj.mem, call.data_offset, call.required_size) /= {}

\* a step inside one lifetime of a region: no Create, no Close
SameLifetime == IsInitialized /\ IsInitialized' /\ nCreates' = nCreates

\* the blocks of the active entries lie between the data-section start and
\* the cursor, and no two of them share a byte
BlocksBelowCursor ==
    \A i \in 0..(MaxSymbols - 1) :
        (i < Index.count /\ Index.entries[i].data_offset /= 0) =>
            /\ Index.entries[i].data_offset >= DATA_SECTIONS_OFFSET
            /\ Index.entries[i].data_offset + Index.entries[i].data_size
                  <= next_data_offset_
            /\ \A j \in 0..(MaxSymbols - 1) :
                  (j < i /\ Index.entries[j].data_offset /= 0) =>
                      \/ Index.entries[j].data_offset + Index.entries[j].data_size
                            <= Index.entries[i].data_offset
                      \/ Index.entries[i].data_offset + Index.entries[i].data_size
                            <= Index.entries[j].data_offset

\* C23: inside one lifetime of a region no step of any WriteCandles call,
\* successful or failed, lowers the cursor, so memoryUsed never falls; a
\* step that raises it hands out the bytes from the old cursor to the new
\* one, so no range is handed out twice, and the blocks in use lie below
\* the cursor and apart from each other.
C23_CursorOnlyAdvances ==
    /\ [](IsInitialized => BlocksBelowCursor)
    /\ [][SameLifetime =>
            /\ next_data_offset_' >= next_data_offset_
            /\ Stats'.memory_used >= Stats.memory_used
            /\ next_data_offset_' > next_data_offset_ =>
                  /\ call'.data_offset = next_data_offset_
                  /\ next_data_offset_' = call'.data_offset + call'.required_size]_vars

\* a failed write and a relocation lie behind a cursor at the end of the arena
C23_Witness ==
    /\ IsInitialized
    /\ wpc = "idle"
    /\ nTx = 3
    /\ nOk = 2
    /\ next_data_offset_ = size_
    /\ next_data_offset_ > DATA_SECTIONS_OFFSET

\* position i of the index holds an entry whose name has been stored
Created(i) == i < Index.count /\ ~(wpc = "add_symbol" /\ call.entry = i)

\* C24: inside one lifetime of a region the index only grows: no step
\* lowers symbol_index.count, and the name stored at a position below count
\* does not change once Add has stored it.
C24_IndexAppendOnly ==
    [][SameLifetime =>
          /\ Index'.count >= Index.count
          /\ \A i \in 0..(MaxSymbols - 1) :
                Created(i) => Index'.entries[i].symbol = Index.entries[i].symbol]_vars

\* a second entry has been added behind the first
C24_Witness ==
    /\ IsInitialized
    /\ wpc = "add_header_count"
    /\ Index.count = 2
    /\ Index.entries[0].symbol /= <<>>
    /\ Index.entries[1].symbol /= <<>>
    /\ Index.entries[0].candle_count > 0

\* the entry a returned write used: the last active entry that stores the name
EntryWritten == CHOOSE e \in EntriesOf(Index, ret.args.symbol) :
                    \A o \in EntriesOf(Index, ret.args.symbol) : o <= e

\* the interval argument of the call that returned (the argument of call
\* number nCalls in WriteInputs)
IntervalWritten == IF nCalls % 2 = 1 THEN ShortInterval ELSE LongInterval

C26_BlockWithinReservation ==
    (IsInitialized /\ wpc = "idle") =>
        \A i \in 0..(MaxSymbols - 1) :
            (i < Index.count /\ Index.entries[i].data_offset /= 0) =>
                LET entry == Index.entries[i]
                    count == Load(Mem, entry.data_offset + OFF_COUNT)
                IN /\ Load(Mem, entry.data_offset + OFF_CAPACITY) >= count
                   /\ count = entry.candle_count
                   /\ BLOCK_HEADER_SIZE + count * CANDLE_SIZE <= entry.data_size

\* two entries have blocks, one of them larger than its list needs
C26_Witness ==
    /\ IsInitialized
    /\ wpc = "idle"
    /\ Index.count = 2
    /\ \A i \in 0..1 : Index.entries[i].data_offset /= 0
    /\ \E i \in 0..1 :
          BLOCK_HEADER_SIZE + Index.entries[i].candle_count * CANDLE_SIZE
              < Index.entries[i].data_size

\* C27: after an in-place write of n candles over a block that held m > n
\* candles, the records at positions n .. m - 1 of the block are the records
\* the block held before the call: they are not cleared.
C27_ShorterListLeavesRecords ==
    (TxReturned /\ ret.err = "OK"
        /\ FitsInPlace(pre.obj, ret.args.symbol, ret.args.n)) =>
        LET old == pre.obj.index.entries[Find(pre.obj.index, ret.args.symbol)]
        IN \A i \in 0..(MaxCandles - 1) :
              (ret.args.n <= i /\ i < old.candle_count) =>
                  /\ BlockCandle(Mem, old.data_offset, i)
                        = BlockCandle(pre.obj.mem, old.data_offset, i)
                  /\ BlockCandle(Mem, old.data_offset, i).open /= 0

\* one candle was written over a block of two, whose second record is there
C27_Witness ==
    /\ TxReturned
    /\ ret.err = "OK"
    /\ ret.args.n = 1
    /\ FitsInPlace(pre.obj, ret.args.symbol, ret.args.n)
    /\ pre.obj.index.entries[Find(pre.obj.index, ret.args.symbol)].candle_count = 2
    /\ Load(Mem, Index.entries[Find(Index, ret.args.symbol)].data_offset + OFF_COUNT) = 1
    /\ BlockCandle(Mem, Index.entries[Find(Index, ret.args.symbol)].data_offset, 1).open /= 0

OutOfSpace ==
    /\ \/ Find(pre.obj.index, ret.args.symbol) /= NULL
       \/ pre.obj.index.count < MaxSymbols
    /\ ~FitsInPlace(pre.obj, ret.args.symbol, ret.args.n)
    /\ pre.cursor + RequiredSize(ret.args.n) > size_

C30_FailedCreateLeavesUninitialized ==
    /\ (ret.op = "Create" /\ ret.err \in {"CREATE_FAILED", "MAPPING_FAILED"}) =>
          /\ ~IsInitialized
          /\ \A n \in 0..(MaxCandles + 1) :
                CheckWrite(IsInitialized, n) = "NOT_INITIALIZED"
          /\ Stats = ZeroStats
    /\ (ret.op = "GetStats" /\ ~IsInitialized) => ret.stats = ZeroStats

\* the second Create of a writer that wrote a list has failed to map
C30_Witness ==
    /\ ret.op = "Create"
    /\ ret.err = "MAPPING_FAILED"
    /\ nCreates = 2
    /\ nOk = 1
    /\ ~IsInitialized
    /\ \E n \in RegionNames : shm[n].exists /\ DataSectionHoldsBytes(shm[n])

\* a step that is a GetStats call (a call that repeats the last one changes
\* no variable at all)
GetStatsStep == ret'.op = "GetStats" /\ ret' /= ret

\* C31: a GetStats call changes nothing of the region or the writer (the
\* objects, the region the writer has, its name and size, the cursor), it
\* returns the statistics of the state it is called in, and on a writer
\* that is not initialized every one of the five numbers is 0.
C31_GetStatsOnlyReads ==
    [][GetStatsStep =>
          /\ UNCHANGED <<shm, name_, size_, region_, next_data_offset_, wpc>>
          /\ ret'.stats = Stats
          /\ ~IsInitialized =>
                /\ ret'.stats.total_symbols = 0
                /\ ret'.stats.total_candles = 0
                /\ ret'.stats.memory_used = 0
                /\ ret'.stats.last_write_us = 0
                /\ ret'.stats.write_count = 0]_vars

\* GetStats has returned zeros on a closed writer whose object holds a list
C31_Witness ==
    /\ ret.op = "GetStats"
    /\ ~IsInitialized
    /\ ret.stats = ZeroStats
    /\ nOk >= 1
    /\ shm["a"].exists
    /\ shm["a"].header.sequence >= 2
    /\ shm["a"].index.count >= 1

\* C32 (as stated): no store of Create or WriteCandles goes to an offset at
\* or beyond the size of the region: the stores of initialize_region stay
\* inside the mapping, and every cell of the data section that was written
\* lies below the size.
C32_StoresInsideRegion ==
    /\ ~oob
    /\ IsInitialized => \A a \in DOMAIN Mem : a < size_

\* C33 (as stated): every store to the region except the stores to
\* sequence lies between the two increments, the header's last_update_us
\* and symbol_count included: whenever sequence is even, header, index and
\* data section are exactly what they were when sequence took that value.
C33_HeaderStoresWhileSequenceOdd ==
    (IsInitialized /\ ~IsWriting(Header)) =>
        /\ Header.sequence \in DOMAIN commits
        /\ Header.symbol_count = commits[Header.sequence].header.symbol_count
        /\ Header.last_update_us = commits[Header.sequence].header.last_update_us
        /\ Index = commits[Header.sequence].index
        /\ Mem = commits[Header.sequence].mem

\* C34 (as stated): a WriteCandles call that returned WriteFailed has left
\* the index as it was before the call: symbol_index.count, the header's
\* symbol_count, totalSymbols and every entry are unchanged, also for a
\* symbol that was not indexed; sequence is two higher.
C34_WriteFailedLeavesIndex ==
    (TxReturned /\ ret.err = "WRITE_FAILED") =>
        /\ Header.sequence = pre.obj.header.sequence + 2
        /\ Index.count = pre.obj.index.count
        /\ Header.symbol_count = pre.obj.header.symbol_count
        /\ Stats.total_symbols = pre.obj.index.count
        /\ \A i \in 0..(MaxSymbols - 1) :
              /\ Index.entries[i].symbol = pre.obj.index.entries[i].symbol
              /\ Index.entries[i].data_offset = pre.obj.index.entries[i].data_offset
              /\ Index.entries[i].data_size = pre.obj.index.entries[i].data_size
              /\ Index.entries[i].candle_count = pre.obj.index.entries[i].candle_count

\* C35: in every state of an initialized region, every active entry with a
\* block has the block at or after the data-section start and ending at or
\* before the cursor, the cursor is then at most the region size, and the
\* byte ranges of the blocks of two active entries are disjoint.
C35_BlocksInsideArena ==
    IsInitialized =>
        \A i \in 0..(MaxSymbols - 1) :
            (i < Index.count /\ Index.entries[i].data_offset /= 0) =>
                LET from == Index.entries[i].data_offset
                    to == Index.entries[i].data_offset + Index.entries[i].data_size
                IN /\ DATA_SECTIONS_OFFSET <= from
                   /\ to <= next_data_offset_
                   /\ next_data_offset_ <= size_
                   /\ \A j \in 0..(MaxSymbols - 1) :
                         (j /= i /\ j < Index.count
                             /\ Index.entries[j].data_offset /= 0) =>
                             \/ to <= Index.entries[j].data_offset
                             \/ Index.entries[j].data_offset
                                   + Index.entries[j].data_size <= from

\* two blocks fill the arena to its last byte
C35_Witness ==
    /\ IsInitialized
    /\ Index.count = 2
    /\ Index.entries[0].data_offset = DATA_SECTIONS_OFFSET
    /\ Index.entries[1].data_offset = DATA_SECTIONS_OFFSET + Index.entries[0].data_size
    /\ Index.entries[1].data_offset + Index.entries[1].data_size = size_
    /\ next_data_offset_ = size_

\* the entries of the region before the call whose stored name is not the
\* one the call's symbol is stored under
OtherEntries ==
    {i \in 0..(MaxSymbols - 1) :
        /\ i < pre.obj.index.count
        /\ pre.obj.index.entries[i].symbol
              /= Truncate(ret.args.symbol, SYMBOL_NAME_SIZE)}

\* the call moved the block of its symbol to a new place
Relocated ==
    /\ Find(pre.obj.index, ret.args.symbol) /= NULL
    /\ pre.obj.index.entries[Find(pre.obj.index, ret.args.symbol)].data_offset /= 0
    /\ next_data_offset_ > pre.cursor

\* C36: a WriteCandles call that has returned, in place, relocated or failed,
\* left the index entry and every block byte of every indexed symbol stored
\* under another name as they were before the call.
C36_OtherSymbolsUntouched ==
    TxReturned =>
        \A i \in OtherEntries :
            /\ Index.entries[i] = pre.obj.index.entries[i]
            /\ pre.obj.index.entries[i].data_offset /= 0 =>
                  \A a \in pre.obj.index.entries[i].data_offset
                            ..(pre.obj.index.entries[i].data_offset
                                  + pre.obj.index.entries[i].data_size - 1) :
                      Load(Mem, a) = Load(pre.obj.mem, a)

\* a relocation next to the block of another symbol
C36_Witness ==
    /\ TxReturned
    /\ ret.err = "OK"
    /\ Relocated
    /\ \E i \in OtherEntries :
          /\ pre.obj.index.entries[i].data_offset /= 0
          /\ pre.obj.index.entries[i].candle_count > 0
          /\ CellsIn(Mem, Index.entries[i].data_offset, Index.entries[i].data_size) /= {}

\* a Create call returns an argument error
RefusedCreateStep ==
    /\ ret' /= ret
    /\ ret'.op = "Create"
    /\ ret'.err \in {"INVALID_NAME", "INVALID_SIZE"}

\* C37: a Create with an empty name or a size out of range, on an initialized
\* writer, returns the error and does no implicit Close: the writer is still
\* initialized on the same region, and the region's bytes, its sequence and
\* the allocator cursor are as before the call.
C37_RefusedCreateKeepsRegion ==
    [][(RefusedCreateStep /\ IsInitialized) =>
          /\ IsInitialized'
          /\ name_' = name_
          /\ size_' = size_
          /\ Region' = Region
          /\ Header'.sequence = Header.sequence
          /\ next_data_offset_' = next_data_offset_
          /\ shm' = shm]_vars

\* an argument error returned by a writer that holds a written region
C37_Witness ==
    /\ ret.op = "Create"
    /\ ret.err \in {"INVALID_NAME", "INVALID_SIZE"}
    /\ IsInitialized
    /\ nOk >= 1
    /\ Header.sequence >= 2
    /\ Index.count >= 1
    /\ next_data_offset_ > DATA_SECTIONS_OFFSET

\* the reader is inside an attempt: it has attached and not yet accepted
InAttempt == rpc \notin {"detached", "accepted"}

\* C38: with a writer of finitely many transactions, none cut short, and weak
\* fairness of the reader's steps, every attempt of the reader ends in an
\* accepted read: s1 even and s2 = s1.
C38_ReaderEventuallyAccepts ==
    /\ InAttempt ~> (rpc = "accepted")
    /\ [][(rpc' = "accepted" /\ rpc /= "accepted") =>
             (r.s1 % 2 = 0 /\ ReaderRegion.header.sequence = r.s1)]_vars

\* an accepted read of the region after its last transaction, by a reader
\* that captured s1 before that transaction ended
C38_Witness ==
    /\ rpc = "accepted"
    /\ r.s1 = 2 * FairCalls
    /\ nTx = FairCalls
    /\ wpc = "idle"

\* C39 (as stated): the sequence of a backing object that stays in existence
\* never decreases, whatever the writer does on its name, a Close followed by
\* a Create of the same name included.
C39_SequenceNeverDecreases ==
    [][\A n \in RegionNames :
          (shm[n].exists /\ shm'[n].exists) =>
              shm'[n].header.sequence >= shm[n].header.sequence]_vars

\* C40 (as stated): in every quiescent state of an initialized region the
\* header's symbol_count equals the index's count, and memoryUsed of GetStats
\* is at least the data-section start and at most the region size.
C40_QuiescentStats ==
    (IsInitialized /\ wpc = "idle") =>
        /\ Header.symbol_count = Index.count
        /\ Stats.memory_used >= DATA_SECTIONS_OFFSET
        /\ Stats.memory_used <= size_

====
